---- MODULE Spec2Model ----
(***************************************************************************)
(* Model of src/App.tsx: the voice-chat client's session lifecycle         *)
(* (connect / disconnect and the live-session callbacks), the transcript   *)
(* accumulator (updateMessage and onmessage) and the transcript export.    *)
(*                                                                         *)
(* Every invocation of connect() is numbered 1..MaxConnects.  Invocation c *)
(* creates at most one AudioContext, one MediaStream and one live session, *)
(* so the number c also names those objects, and the promise returned by   *)
(* live.connect in invocation c.  A ref holding Null holds no object.      *)
(***************************************************************************)
EXTENDS Naturals, Sequences, FiniteSets, TLC

\* ------------------------------------------------------------------ bounds
MaxConnects == 2            \* invocations of connect()
MaxServerMessages == 2      \* onmessage events delivered over all sessions
MaxSteps == 8               \* events (clicks, callbacks, settled awaits) in a run of Spec
MaxDeepSteps == 10          \* the same, in a run of SpecDeep
MaxExportMessages == 3      \* length of the message lists the export is applied to
MaxVisualizerSteps == 6     \* events (renders, animation frames) in a run of SpecVisualizer

\* --------------------------------------------------------------- constants
Null == 0
Roles == {"user", "model"}
NoError == "null"
ApiKeyMissing == "API Key is missing."
DefaultConnectionError == "Connection error. Please try again."
\* e.message of what the try block of connect can throw
CatchMessages == {"Permission denied"}
\* err.message of the event handed to onerror ("" stands for an absent message)
ErrorEventMessages == {"", "Network error"}
InterruptionMarker == <<" ", ".", ".", ".">>
\* Fragments a transcription event can carry: absent, empty, a letter, a blank
NoFragment == [has |-> FALSE, text |-> <<>>]
Fragments ==
    { NoFragment,
      [has |-> TRUE, text |-> <<>>],
      [has |-> TRUE, text |-> <<"a">>],
      [has |-> TRUE, text |-> <<" ">>] }
ServerMessages ==
    [inputTranscription : Fragments, outputTranscription : Fragments,
     turnComplete : BOOLEAN, interrupted : BOOLEAN]

\* ------------------------------------------------------------------- state
VARIABLES
    mounted,               \* the mount effects have run
    apiKey,                \* process.env.API_KEY is present
    aiRef,                 \* aiRef.current is a client (TRUE) or null (FALSE)
    isConnected,
    messages,
    error,
    sessionRef,            \* the connect() whose session promise it holds, or Null
    inputContextRef,       \* the connect() whose AudioContext it holds, or Null
    sourceNodeRef,         \* the session whose onopen created the node, or Null
    processorNodeRef,
    currentInputTextRef,
    currentOutputTextRef,
    activeMessageIds,
    conn,                  \* per connect(): position and the objects it created
    disc,                  \* the suspended invocations of disconnect(), oldest first
    outcome,               \* history: how a disconnect() ended in the latest step, if one did
    frameTo,               \* the session an audio frame was sent to in the latest step, or Null
    download,              \* content of the latest exported file (<<>>: none)
    nServerMessages,       \* onmessage events so far
    turn,                  \* history: fragments handled since the role's buffer was last reset
    superseded,            \* history: connects started before the latest user
                           \* disconnect, remote error or remote close
    stepsLeft,             \* events the run may still take
    \* ---- the Visualizer component
    vizMounted,            \* the component is mounted and its effect has run
    canvasOk,              \* canvasRef.current and its 2d context are there
    props,                 \* [isActive, analyser] of the latest render
    animationRef,          \* animationRef.current: the handle of the latest request
    effectNo,              \* the number of effect runs so far: names the current effect
    pendingFrames,         \* the browser's pending animation frames: [id, closure, effect]
    canvas,                \* what the canvas shows: "blank", "baseline" or "bars"
    drawn                  \* history: the draw that ran in the latest step, if one did

appVars == <<mounted, apiKey, aiRef, isConnected, messages, error, sessionRef,
          inputContextRef, sourceNodeRef, processorNodeRef, currentInputTextRef,
          currentOutputTextRef, activeMessageIds, conn, disc, outcome, frameTo, download,
          nServerMessages, turn, superseded>>
visualizer ==
    <<vizMounted, canvasOk, props, animationRef, effectNo, pendingFrames, canvas, drawn>>
vars == <<appVars, stepsLeft, visualizer>>

\* -------------------------------------------------------------- text (JS)
IsSpace(ch) == ch = " "

RECURSIVE TrimStart(_)
TrimStart(s) ==
    IF s = <<>> THEN <<>>
    ELSE IF IsSpace(Head(s)) THEN TrimStart(Tail(s)) ELSE s

RECURSIVE TrimEnd(_)
TrimEnd(s) ==
    IF s = <<>> THEN <<>>
    ELSE IF IsSpace(s[Len(s)]) THEN TrimEnd(SubSeq(s, 1, Len(s) - 1)) ELSE s

\* String.prototype.trim
Trim(s) == TrimEnd(TrimStart(s))

\* a faulty variant of Truthy: the empty string counts as true
Truthy_Always(s) == TRUE

\* truthiness of a JS string
Truthy(s) == s # <<>>

\* ------------------------------------------------- transcript accumulator
\* The accumulator's state is passed around as a record
\*   [messages, ids, inBuf, outBuf]
\* standing for messages, activeMessageIds.current, currentInputTextRef.current
\* and currentOutputTextRef.current.
Transcript ==
    [messages |-> messages, ids |-> activeMessageIds,
     inBuf |-> currentInputTextRef, outBuf |-> currentOutputTextRef]

NoActiveIds == [user |-> Null, model |-> Null]

\* Date.now().toString() + Math.random()...: an id no message carries yet.
\* Every generated id is pushed with its message at once and messages are never
\* removed, so the ids in use are 1..Len(msgs).
FreshId(msgs) == Len(msgs) + 1

\* Array.prototype.findIndex(m => m.id === id); 0 stands for -1 (not found)
findIndex(msgs, id) ==
    IF \E i \in 1..Len(msgs) : msgs[i].id = id
    THEN CHOOSE i \in 1..Len(msgs) :
            msgs[i].id = id /\ \A j \in 1..(i - 1) : msgs[j].id # id
    ELSE 0

\* a faulty variant of updateMessage: the active id is not reset on a final update
updateMessage_KeepsActiveId(role, text, isFinal, T) ==
    LET id0 == T.ids[role]
        create == id0 = Null /\ Truthy(Trim(text))
        targetId == IF create THEN FreshId(T.messages) ELSE id0
        ids1 == IF create THEN [T.ids EXCEPT ![role] = targetId] ELSE T.ids
        idx == findIndex(T.messages, targetId)
        msgs1 ==
            IF idx # 0
            THEN [T.messages EXCEPT ![idx] = [@ EXCEPT !.text = text, !.isPartial = ~isFinal]]
            ELSE Append(T.messages,
                        [id |-> targetId, role |-> role, text |-> text, isPartial |-> ~isFinal])
    IN  IF targetId = Null THEN T
        ELSE [T EXCEPT !.messages = msgs1, !.ids = ids1]

\* a faulty variant of updateMessage: a new message is put at the head of the list
updateMessage_Unshift(role, text, isFinal, T) ==
    LET id0 == T.ids[role]
        create == id0 = Null /\ Truthy(Trim(text))
        targetId == IF create THEN FreshId(T.messages) ELSE id0
        ids1 == IF create THEN [T.ids EXCEPT ![role] = targetId] ELSE T.ids
        idx == findIndex(T.messages, targetId)
        msgs1 ==
            IF idx # 0
            THEN [T.messages EXCEPT ![idx] = [@ EXCEPT !.text = text, !.isPartial = ~isFinal]]
            ELSE <<[id |-> targetId, role |-> role, text |-> text, isPartial |-> ~isFinal]>>
                 \o T.messages
    IN  IF targetId = Null THEN T
        ELSE [T EXCEPT !.messages = msgs1,
                       !.ids = IF isFinal THEN [ids1 EXCEPT ![role] = Null] ELSE ids1]

updateMessage(role, text, isFinal, T) ==
    LET id0 == T.ids[role]
        create == id0 = Null /\ Truthy(Trim(text))
        targetId == IF create THEN FreshId(T.messages) ELSE id0
        ids1 == IF create THEN [T.ids EXCEPT ![role] = targetId] ELSE T.ids
        idx == findIndex(T.messages, targetId)
        msgs1 ==
            IF idx # 0
            THEN [T.messages EXCEPT ![idx] = [@ EXCEPT !.text = text, !.isPartial = ~isFinal]]
            ELSE Append(T.messages,
                        [id |-> targetId, role |-> role, text |-> text, isPartial |-> ~isFinal])
    IN  IF targetId = Null THEN T
        ELSE [T EXCEPT !.messages = msgs1,
                       !.ids = IF isFinal THEN [ids1 EXCEPT ![role] = Null] ELSE ids1]

\* a faulty variant of AppendFragment: the fragment is put before the buffer
AppendFragment_Prepends(buf, text) == text \o buf

\* currentInputTextRef.current += text
AppendFragment(buf, text) == buf \o text

\* a faulty variant of InterruptedText: the marker is left out
InterruptedText_NoMarker(buf) == buf

\* currentOutputTextRef.current + " ..."
InterruptedText(buf) == buf \o InterruptionMarker

\* if (msg.serverContent?.inputTranscription) { ... }
HandleInputTranscription(m, T) ==
    IF m.inputTranscription.has /\ Truthy(m.inputTranscription.text)
    THEN LET b == AppendFragment(T.inBuf, m.inputTranscription.text)
         IN  updateMessage("user", b, FALSE, [T EXCEPT !.inBuf = b])
    ELSE T

\* if (msg.serverContent?.outputTranscription) { ... }
HandleOutputTranscription(m, T) ==
    IF m.outputTranscription.has /\ Truthy(m.outputTranscription.text)
    THEN LET b == AppendFragment(T.outBuf, m.outputTranscription.text)
         IN  updateMessage("model", b, FALSE, [T EXCEPT !.outBuf = b])
    ELSE T

\* if (msg.serverContent?.turnComplete) { ... }
HandleTurnComplete(m, T) ==
    IF m.turnComplete
    THEN LET T1 == IF Truthy(T.inBuf)
                   THEN [updateMessage("user", T.inBuf, TRUE, T) EXCEPT !.inBuf = <<>>]
                   ELSE T
         IN  IF Truthy(T1.outBuf)
             THEN [updateMessage("model", T1.outBuf, TRUE, T1) EXCEPT !.outBuf = <<>>]
             ELSE T1
    ELSE T

\* if (msg.serverContent?.interrupted) { ... }
HandleInterrupted(m, T) ==
    IF m.interrupted /\ Truthy(T.outBuf)
    THEN [updateMessage("model", InterruptedText(T.outBuf), TRUE, T) EXCEPT !.outBuf = <<>>]
    ELSE T

\* The accumulator when the handler reaches its turnComplete branch, and when
\* it reaches its interruption branch
BeforeTurnComplete(m, T) == HandleOutputTranscription(m, HandleInputTranscription(m, T))
BeforeInterrupted(m, T) == HandleTurnComplete(m, BeforeTurnComplete(m, T))

\* the whole body of onmessage
onmessageBody(m, T) == HandleInterrupted(m, BeforeInterrupted(m, T))

\* ---- history of the current turn (not program state)
RoleMessages(msgs, role) == { i \in 1..Len(msgs) : msgs[i].role = role }
Buffer(T, role) == IF role = "user" THEN T.inBuf ELSE T.outBuf
FragmentOf(m, role) ==
    IF role = "user" THEN m.inputTranscription ELSE m.outputTranscription

RECURSIVE Concat(_)
Concat(ss) == IF ss = <<>> THEN <<>> ELSE Head(ss) \o Concat(Tail(ss))

NewTurn(msgs, role) == [frags |-> <<>>, base |-> Cardinality(RoleMessages(msgs, role))]

\* turn[role] after onmessage handled m from accumulator state T: the fragment
\* is recorded on arrival; the turn ends where the handler resets the buffer
TurnAfterMessage(m, T, g) ==
    [role \in Roles |->
        LET f == FragmentOf(m, role)
            g1 == IF f.has /\ f.text # <<>>
                  THEN [g[role] EXCEPT !.frags = Append(@, f.text)]
                  ELSE g[role]
            endedByTurnComplete == m.turnComplete /\ Buffer(BeforeTurnComplete(m, T), role) # <<>>
            endedByInterruption ==
                role = "model" /\ m.interrupted /\ BeforeInterrupted(m, T).outBuf # <<>>
        IN  IF endedByTurnComplete \/ endedByInterruption
            THEN NewTurn(onmessageBody(m, T).messages, role)
            ELSE g1]

\* ------------------------------------------------------ transcript export
UserPrefix == <<"[", "U", "s", "e", "r", "]", ":", " ">>
AIPrefix == <<"[", "A", "I", "]", ":", " ">>
BlockSeparator == <<"\n", "\n">>

\* a faulty variant of ExportBlock: every block is labelled as the user's
ExportBlock_AlwaysUser(msg) == UserPrefix \o msg.text

\* `[${role}]: ${msg.text}` with role = msg.role === 'user' ? 'User' : 'AI'
ExportBlock(msg) ==
    (IF msg.role = "user" THEN UserPrefix ELSE AIPrefix) \o msg.text

\* Array.prototype.join
RECURSIVE Join(_, _)
Join(blocks, sep) ==
    IF blocks = <<>> THEN <<>>
    ELSE IF Len(blocks) = 1 THEN Head(blocks)
    ELSE Head(blocks) \o sep \o Join(Tail(blocks), sep)

\* messages.map(...).join('\n\n')
ExportContent(msgs) ==
    Join([i \in 1..Len(msgs) |-> ExportBlock(msgs[i])], BlockSeparator)

\* ---------------------------------------------------------------- session
\* conn[c], for the c-th invocation of connect():
\*   pc     "idle" (not invoked), "awaitResume" (line 145), "awaitMedia" (line 153),
\*          "returned" (ran to line 251), "failed" (ran the catch block)
\*   ctx    its AudioContext: "none", "suspended", "running", "closed"
\*   stream its MediaStream: "none", "live", "stopped"
\*   sess   its live session and the promise live.connect returned:
\*          "none"
\*          "connecting"       socket opening, promise pending
\*          "rejected"         promise rejected, no socket
\*          "open"             socket open, promise resolved
\*          "errorConnecting"  socket failed before opening (onclose to come); the
\*                             promise stays pending for ever
\*          "dead"             the same, after onclose
\*          "errorOpen"        open socket failed (onclose to come)
\*          "closing"          session.close() called (onclose to come)
\*          "closed"           socket closed, promise resolved
\*   graph  the source and processor nodes its onopen created:
\*          "none", "connected", "detached"
\*   nodeCtx the AudioContext those nodes were created on, or Null
IdleConn ==
    [pc |-> "idle", ctx |-> "none", stream |-> "none", sess |-> "none",
     graph |-> "none", nodeCtx |-> Null]

Connects == 1..MaxConnects
Started == { c \in Connects : conn[c].pc # "idle" }

PromiseResolved(s) == s \in {"open", "errorOpen", "closing", "closed"}
PromiseRejected(s) == s = "rejected"

\* String.prototype.includes("Connection") on the error strings of this model
IncludesConnection(e) ==
    e \in {DefaultConnectionError, "Connection closed"}

\* disabled={!!error && error !== "Connection closed" && !error.includes("Connection")}
ButtonDisabled(e) ==
    e # NoError /\ e # "Connection closed" /\ ~IncludesConnection(e)

\* a faulty variant of MountError: a missing key is not reported
MountError_Silent(hasKey) == NoError

\* the error state after the mount effect "Initialize AI"
MountError(hasKey) == IF hasKey THEN NoError ELSE ApiKeyMissing

\* ---- disconnect().  Its steps work on a record of what it may write:
\*   [conn, sessionRef, inBuf, outBuf, ids, disc, outcome]
\* A step that awaits a promise which is already settled goes on at once;
\* otherwise the invocation is suspended and joins disc with its position:
\*   "awaitClose" (line 265), "awaitSession" (line 274, p the awaited promise).
\* outcome tells how an invocation ended in this step: "done" (it returned,
\* lines 280-282 ran), "aborted" (an exception left it), "none" (none ended).
World ==
    [conn |-> conn, sessionRef |-> sessionRef, inBuf |-> currentInputTextRef,
     outBuf |-> currentOutputTextRef, ids |-> activeMessageIds, disc |-> disc,
     outcome |-> "none"]

\* lines 279-282
disconnect_reset(W) ==
    [W EXCEPT !.inBuf = <<>>, !.outBuf = <<>>, !.ids = NoActiveIds, !.outcome = "done"]

\* session.close() on the session behind promise p
sessionClose(s) == IF s = "open" THEN "closing" ELSE s

\* lines 275-282, the awaited promise p being resolved
disconnect_closeSession(W, p) ==
    disconnect_reset([W EXCEPT !.conn[p].sess = sessionClose(@), !.sessionRef = Null])

\* the awaited promise p being rejected: await throws, nothing catches it
disconnect_abort(W) == [W EXCEPT !.outcome = "aborted"]

\* lines 268-282, from the end of the first await
disconnect_afterClose(W) ==
    LET W1 == [W EXCEPT !.conn =
                  [c \in Connects |->
                      IF c \in {sourceNodeRef, processorNodeRef}
                      THEN [W.conn[c] EXCEPT !.graph = "detached"]
                      ELSE W.conn[c]]]
        p == W.sessionRef
    IN  IF p = Null THEN disconnect_reset(W1)
        ELSE IF PromiseResolved(W1.conn[p].sess) THEN disconnect_closeSession(W1, p)
        ELSE IF PromiseRejected(W1.conn[p].sess) THEN disconnect_abort(W1)
        ELSE [W1 EXCEPT !.disc = Append(@, [pc |-> "awaitSession", p |-> p])]

\* lines 260-266, a new invocation (setIsConnected(false) is in the calling
\* action).  close() on a context that is already closed rejects at once and the
\* rejection is caught; otherwise the context closes and the call is awaited.
disconnect_begin(W) ==
    IF inputContextRef = Null THEN disconnect_afterClose(W)
    ELSE IF W.conn[inputContextRef].ctx = "closed" THEN disconnect_afterClose(W)
    ELSE [W EXCEPT !.conn[inputContextRef].ctx = "closed",
                   !.disc = Append(@, [pc |-> "awaitClose", p |-> Null])]

Remove(seq, i) == SubSeq(seq, 1, i - 1) \o SubSeq(seq, i + 1, Len(seq))

\* The promise of session c has just settled: every disconnect() suspended on
\* it goes on, oldest first.
RECURSIVE resumeAwaiting(_, _, _)
resumeAwaiting(W, c, i) ==
    IF i > Len(W.disc) THEN W
    ELSE IF W.disc[i].pc = "awaitSession" /\ W.disc[i].p = c
         THEN LET W1 == [W EXCEPT !.disc = Remove(@, i)]
              IN  resumeAwaiting(
                     IF PromiseResolved(W.conn[c].sess)
                     THEN disconnect_closeSession(W1, c)
                     ELSE disconnect_abort(W1),
                     c, i)
         ELSE resumeAwaiting(W, c, i + 1)

FreshTurns == [role \in Roles |-> NewTurn(messages, role)]

Commit(W) ==
    /\ conn' = W.conn
    /\ sessionRef' = W.sessionRef
    /\ currentInputTextRef' = W.inBuf
    /\ currentOutputTextRef' = W.outBuf
    /\ activeMessageIds' = W.ids
    /\ disc' = W.disc
    /\ outcome' = W.outcome
    /\ turn' = IF W.outcome = "done" THEN FreshTurns ELSE turn

\* the catch block of connect(): setError(e.message); disconnect()
connect_catch(c, msg) ==
    /\ error' = msg
    /\ isConnected' = FALSE
    /\ Commit(disconnect_begin([World EXCEPT !.conn[c].pc = "failed"]))
    /\ superseded' = superseded

\* ----------------------------------------------------------------- actions
boot == <<mounted, apiKey, aiRef>>
nodeRefs == <<sourceNodeRef, processorNodeRef>>
accumulator == <<currentInputTextRef, currentOutputTextRef, activeMessageIds, turn>>
\* no disconnect() moves in this step
NoDisconnectStep == disc' = disc /\ outcome' = "none"
\* no audio frame is sent in this step
NoFrame == frameTo' = Null
\* every event uses up one of the events the run may take
Tick == stepsLeft > 0 /\ stepsLeft' = stepsLeft - 1

\* ---- the Visualizer before it is mounted
NoProps == [isActive |-> FALSE, analyser |-> Null]
NoDraw == [by |-> 0, closure |-> NoProps]
VisualizerStart ==
    /\ vizMounted = FALSE
    /\ canvasOk = TRUE
    /\ props = NoProps
    /\ animationRef = 0
    /\ effectNo = 0
    /\ pendingFrames = {}
    /\ canvas = "blank"
    /\ drawn = NoDraw

\* the state at the first render, before the mount effects
Start ==
    /\ mounted = FALSE
    /\ apiKey \in BOOLEAN
    /\ aiRef = FALSE
    /\ isConnected = FALSE
    /\ messages = <<>>
    /\ error = NoError
    /\ sessionRef = Null
    /\ inputContextRef = Null
    /\ sourceNodeRef = Null
    /\ processorNodeRef = Null
    /\ currentInputTextRef = <<>>
    /\ currentOutputTextRef = <<>>
    /\ activeMessageIds = NoActiveIds
    /\ conn = [c \in Connects |-> IdleConn]
    /\ disc = <<>>
    /\ outcome = "none"
    /\ frameTo = Null
    /\ download = <<>>
    /\ nServerMessages = 0
    /\ turn = [role \in Roles |-> [frags |-> <<>>, base |-> 0]]
    /\ superseded = {}
    /\ VisualizerStart

Init == Start /\ stepsLeft = MaxSteps

InitDeep == Start /\ stepsLeft = MaxDeepSteps

\* useEffect(() => { if (process.env.API_KEY) ... else setError(...) }, [])
InitializeAI ==
    /\ Tick
    /\ UNCHANGED visualizer
    /\ ~mounted
    /\ mounted' = TRUE
    /\ aiRef' = apiKey
    /\ error' = MountError(apiKey)
    /\ NoDisconnectStep
    /\ NoFrame
    /\ UNCHANGED <<apiKey, isConnected, messages, sessionRef, inputContextRef, nodeRefs,
                   accumulator, conn, download, nServerMessages, superseded>>

\* Click on "Start Listening": connect() up to its first await.  The
\* AudioContext constructor throws, or yields a running or a suspended context.
connect(c) ==
    /\ Tick
    /\ UNCHANGED visualizer
    /\ mounted /\ ~isConnected /\ ~ButtonDisabled(error)
    /\ c = Cardinality(Started) + 1
    /\ IF ~aiRef
       THEN NoDisconnectStep /\ NoFrame
            /\ UNCHANGED <<boot, isConnected, messages, error, sessionRef,
                           inputContextRef, nodeRefs, accumulator, conn, download,
                           nServerMessages, superseded>>
       ELSE \/ /\ \E msg \in CatchMessages : connect_catch(c, msg)
               /\ NoFrame
               /\ UNCHANGED <<boot, messages, inputContextRef, nodeRefs, download, nServerMessages>>
            \/ /\ \E st \in {"running", "suspended"} :
                    conn' = [conn EXCEPT ![c].ctx = st,
                                         ![c].pc = IF st = "suspended" THEN "awaitResume"
                                                   ELSE "awaitMedia"]
               /\ error' = NoError
               /\ inputContextRef' = c
               /\ NoDisconnectStep
               /\ NoFrame
               /\ UNCHANGED <<boot, isConnected, messages, sessionRef, nodeRefs,
                              accumulator, download, nServerMessages,
                              superseded>>

\* await inputContextRef.current.resume() settles: it resolves unless the
\* context was closed meanwhile, or rejects
resumeSettled(c) ==
    /\ Tick
    /\ UNCHANGED visualizer
    /\ conn[c].pc = "awaitResume"
    /\ \/ /\ conn[c].ctx = "suspended"
          /\ conn' = [conn EXCEPT ![c].ctx = "running", ![c].pc = "awaitMedia"]
          /\ NoDisconnectStep
          /\ NoFrame
          /\ UNCHANGED <<boot, isConnected, messages, error, sessionRef, inputContextRef,
                         nodeRefs, accumulator, download, nServerMessages,
                         superseded>>
       \/ /\ \E msg \in CatchMessages : connect_catch(c, msg)
          /\ NoFrame
          /\ UNCHANGED <<boot, messages, inputContextRef, nodeRefs, download,
                         nServerMessages>>

\* await navigator.mediaDevices.getUserMedia(...) settles; on success connect()
\* runs on to its end: live.connect(...) returns the session promise
getUserMediaSettled(c) ==
    /\ Tick
    /\ UNCHANGED visualizer
    /\ conn[c].pc = "awaitMedia"
    /\ \/ /\ conn' = [conn EXCEPT ![c].stream = "live", ![c].sess = "connecting",
                                  ![c].pc = "returned"]
          /\ sessionRef' = c
          /\ NoDisconnectStep
          /\ NoFrame
          /\ UNCHANGED <<boot, isConnected, messages, error, inputContextRef, nodeRefs,
                         accumulator, download, nServerMessages, superseded>>
       \/ /\ \E msg \in CatchMessages : connect_catch(c, msg)
          /\ NoFrame
          /\ UNCHANGED <<boot, messages, inputContextRef, nodeRefs, download,
                         nServerMessages>>

\* The socket of session c opens: callbacks.onopen, then the session promise
\* resolves and the disconnects suspended on it go on.
onopen(c) ==
    /\ Tick
    /\ UNCHANGED visualizer
    /\ conn[c].sess = "connecting"
    /\ isConnected' = TRUE
    /\ LET created == inputContextRef # Null
           W == [World EXCEPT
                   !.conn[c].sess = "open",
                   !.conn[c].graph = IF created THEN "connected" ELSE @,
                   !.conn[c].nodeCtx = IF created THEN inputContextRef ELSE @]
       IN  /\ Commit(resumeAwaiting(W, c, 1))
           /\ sourceNodeRef' = IF created THEN c ELSE sourceNodeRef
           /\ processorNodeRef' = IF created THEN c ELSE processorNodeRef
    /\ NoFrame
    /\ UNCHANGED <<boot, messages, error, inputContextRef, download,
                   nServerMessages, superseded>>

\* The promise live.connect returned is rejected (no socket was opened, no
\* callback runs); the disconnects suspended on it are left by the exception.
sessionRejected(c) ==
    /\ Tick
    /\ UNCHANGED visualizer
    /\ conn[c].sess = "connecting"
    /\ Commit(resumeAwaiting([World EXCEPT !.conn[c].sess = "rejected"], c, 1))
    /\ NoFrame
    /\ UNCHANGED <<boot, isConnected, messages, error, inputContextRef, nodeRefs,
                   download, nServerMessages, superseded>>

\* processorNodeRef.current.onaudioprocess of the graph session c's onopen
\* built: the frame goes to session c
onaudioprocess(c) ==
    /\ Tick
    /\ UNCHANGED visualizer
    /\ conn[c].graph = "connected"
    /\ conn[conn[c].nodeCtx].ctx = "running"
    /\ conn[c].sess = "open"
    /\ frameTo' = c
    /\ NoDisconnectStep
    /\ UNCHANGED <<boot, isConnected, messages, error, sessionRef, inputContextRef,
                   nodeRefs, accumulator, conn, download, nServerMessages, superseded>>

\* callbacks.onmessage of session c
onmessage(c, m) ==
    /\ Tick
    /\ UNCHANGED visualizer
    /\ conn[c].sess = "open"
    /\ nServerMessages < MaxServerMessages
    /\ nServerMessages' = nServerMessages + 1
    /\ LET T == onmessageBody(m, Transcript)
       IN  /\ messages' = T.messages
           /\ activeMessageIds' = T.ids
           /\ currentInputTextRef' = T.inBuf
           /\ currentOutputTextRef' = T.outBuf
    /\ turn' = TurnAfterMessage(m, Transcript, turn)
    /\ NoDisconnectStep
    /\ NoFrame
    /\ UNCHANGED <<boot, isConnected, error, sessionRef, inputContextRef, nodeRefs, conn,
                   download, superseded>>

\* callbacks.onclose of session c: the remote end closed, or the close that
\* follows an error or session.close()
onclose(c) ==
    /\ Tick
    /\ UNCHANGED visualizer
    /\ conn[c].sess \in {"open", "errorConnecting", "errorOpen", "closing"}
    /\ isConnected' = FALSE
    /\ conn' = [conn EXCEPT ![c].sess = IF @ = "errorConnecting" THEN "dead" ELSE "closed"]
    /\ superseded' = Started
    /\ NoDisconnectStep
    /\ NoFrame
    /\ UNCHANGED <<boot, messages, error, sessionRef, inputContextRef, nodeRefs,
                   accumulator, download, nServerMessages>>

\* callbacks.onerror of session c: setError(...); disconnect()
onerror(c, em) ==
    /\ Tick
    /\ UNCHANGED visualizer
    /\ conn[c].sess \in {"connecting", "open"}
    /\ error' = IF em # "" THEN em ELSE DefaultConnectionError
    /\ isConnected' = FALSE
    /\ Commit(disconnect_begin(
          [World EXCEPT !.conn[c].sess = IF @ = "connecting" THEN "errorConnecting"
                                          ELSE "errorOpen"]))
    /\ superseded' = Started
    /\ NoFrame
    /\ UNCHANGED <<boot, messages, inputContextRef, nodeRefs, download,
                   nServerMessages>>

\* Click on "End Session": disconnect() up to its first pending await
disconnect ==
    /\ Tick
    /\ UNCHANGED visualizer
    /\ mounted /\ isConnected
    /\ isConnected' = FALSE
    /\ Commit(disconnect_begin(World))
    /\ superseded' = Started
    /\ NoFrame
    /\ UNCHANGED <<boot, messages, error, inputContextRef, nodeRefs, download,
                   nServerMessages>>

\* await inputContextRef.current.close() of the i-th suspended disconnect()
\* settles (resolved, or rejected and caught): it goes on from line 268
contextCloseSettled(i) ==
    /\ Tick
    /\ UNCHANGED visualizer
    /\ disc[i].pc = "awaitClose"
    /\ Commit(disconnect_afterClose([World EXCEPT !.disc = Remove(@, i)]))
    /\ NoFrame
    /\ UNCHANGED <<boot, isConnected, messages, error, inputContextRef, nodeRefs,
                   download, nServerMessages, superseded>>

Next ==
    \/ InitializeAI
    \/ \E c \in Connects : connect(c)
    \/ \E c \in Connects : resumeSettled(c)
    \/ \E c \in Connects : getUserMediaSettled(c)
    \/ \E c \in Connects : onopen(c)
    \/ \E c \in Connects : sessionRejected(c)
    \/ \E c \in Connects : onaudioprocess(c)
    \/ \E c \in Connects, m \in ServerMessages : onmessage(c, m)
    \/ \E c \in Connects : onclose(c)
    \/ \E c \in Connects, em \in ErrorEventMessages : onerror(c, em)
    \/ disconnect
    \/ \E i \in 1..Len(disc) : contextCloseSettled(i)

Spec == Init /\ [][Next]_vars

\* the same program, followed for more events
SpecDeep == InitDeep /\ [][Next]_vars

\* ------------------------------------------------- the export on its own
\* downloadTranscript reads nothing but messages: it is applied to the message
\* lists of up to MaxExportMessages entries the accumulator can build.
ExportTexts == { <<"a">>, <<" ", "a">>, <<"a">> \o InterruptionMarker }
ExportLists ==
    UNION { [1..n -> [role : Roles, text : ExportTexts, isPartial : {FALSE}]] :
            n \in 0..MaxExportMessages }
WithIds(list) ==
    [i \in 1..Len(list) |->
        [id |-> i, role |-> list[i].role, text |-> list[i].text,
         isPartial |-> list[i].isPartial]]

InitExport ==
    /\ mounted = TRUE
    /\ apiKey = TRUE
    /\ aiRef = TRUE
    /\ isConnected = FALSE
    /\ \E list \in ExportLists : messages = WithIds(list)
    /\ error = NoError
    /\ sessionRef = Null
    /\ inputContextRef = Null
    /\ sourceNodeRef = Null
    /\ processorNodeRef = Null
    /\ currentInputTextRef = <<>>
    /\ currentOutputTextRef = <<>>
    /\ activeMessageIds = NoActiveIds
    /\ conn = [c \in Connects |-> IdleConn]
    /\ disc = <<>>
    /\ outcome = "none"
    /\ frameTo = Null
    /\ download = <<>>
    /\ nServerMessages = 0
    /\ turn = [role \in Roles |-> NewTurn(messages, role)]
    /\ superseded = {}
    /\ VisualizerStart
    /\ stepsLeft = MaxSteps

\* the body of downloadTranscript; download is the content of the file saved
downloadTranscript ==
    /\ Tick
    /\ UNCHANGED visualizer
    /\ IF Len(messages) = 0
       THEN download' = download
       ELSE download' = ExportContent(messages)
    /\ NoDisconnectStep
    /\ NoFrame
    /\ UNCHANGED <<boot, isConnected, messages, error, sessionRef, inputContextRef,
                   nodeRefs, accumulator, conn, nServerMessages, superseded>>

NextExport == downloadTranscript

SpecExport == InitExport /\ [][NextExport]_vars

\* -------------------------------------------- the Visualizer on its own
\* The component is followed through its renders and animation frames, under
\* every sequence of props its parent can pass: isActive is isConnected, and
\* analyser is null or the analyser a connect() created (line 149).  color is
\* the same at every render (line 359).  The effect of the e-th effect run
\* closes over the props of its render; a pending frame is a request
\* [id, closure, effect] of requestAnimationFrame that has not run.
VisualizerProps == [isActive : BOOLEAN, analyser : {Null} \cup Connects]

\* a faulty variant of cancelAnimationFrame: the request stays pending
cancelAnimationFrame_Noop(pending, id) == pending

\* cancelAnimationFrame(id): an id that is not pending is ignored
cancelAnimationFrame(pending, id) == { f \in pending : f.id # id }

\* What draw and the cleanup write: [pending, ref, canvas], standing for the
\* pending frames, animationRef.current and the canvas.
Screen == [pending |-> pendingFrames, ref |-> animationRef, canvas |-> canvas]

\* draw() of effect e, lines 426-472
draw(closure, e, V) ==
    IF ~closure.isActive \/ closure.analyser = Null
    THEN [V EXCEPT !.canvas = "baseline"]
    ELSE [pending |-> V.pending \cup
                        {[id |-> V.ref + 1, closure |-> closure, effect |-> e]},
          ref |-> V.ref + 1,
          canvas |-> "bars"]

\* the effect body, lines 416-474; without canvas or context it returns at once
runEffect(closure, e, V) == IF canvasOk THEN draw(closure, e, V) ELSE V

\* the cleanup the effect returned, lines 476-478 (none if it returned early)
cleanupEffect(V) ==
    IF canvasOk THEN [V EXCEPT !.pending = cancelAnimationFrame(@, V.ref)] ELSE V

Show(V) ==
    /\ pendingFrames' = V.pending
    /\ animationRef' = V.ref
    /\ canvas' = V.canvas

InitVisualizer ==
    /\ mounted = TRUE
    /\ apiKey = TRUE
    /\ aiRef = TRUE
    /\ isConnected = FALSE
    /\ messages = <<>>
    /\ error = NoError
    /\ sessionRef = Null
    /\ inputContextRef = Null
    /\ sourceNodeRef = Null
    /\ processorNodeRef = Null
    /\ currentInputTextRef = <<>>
    /\ currentOutputTextRef = <<>>
    /\ activeMessageIds = NoActiveIds
    /\ conn = [c \in Connects |-> IdleConn]
    /\ disc = <<>>
    /\ outcome = "none"
    /\ frameTo = Null
    /\ download = <<>>
    /\ nServerMessages = 0
    /\ turn = [role \in Roles |-> NewTurn(messages, role)]
    /\ superseded = {}
    /\ vizMounted = FALSE
    /\ canvasOk \in BOOLEAN
    /\ props = NoProps
    /\ animationRef = 0
    /\ effectNo = 0
    /\ pendingFrames = {}
    /\ canvas = "blank"
    /\ drawn = NoDraw
    /\ stepsLeft = MaxVisualizerSteps

\* the first render with props p, and the effect after it
VisualizerMount(p) ==
    /\ Tick
    /\ ~vizMounted /\ effectNo = 0
    /\ vizMounted' = TRUE
    /\ props' = p
    /\ effectNo' = 1
    /\ Show(runEffect(p, 1, Screen))
    /\ drawn' = IF canvasOk THEN [by |-> 1, closure |-> p] ELSE NoDraw
    /\ UNCHANGED <<appVars, canvasOk>>

\* a render with props p that differ from the last ones in isActive or
\* analyser: the cleanup of the last effect, then the effect anew.  (With equal
\* dependencies React runs neither.)
VisualizerRender(p) ==
    /\ Tick
    /\ vizMounted /\ p # props
    /\ props' = p
    /\ effectNo' = effectNo + 1
    /\ Show(runEffect(p, effectNo + 1, cleanupEffect(Screen)))
    /\ drawn' = IF canvasOk THEN [by |-> effectNo + 1, closure |-> p] ELSE NoDraw
    /\ UNCHANGED <<appVars, vizMounted, canvasOk>>

\* the browser runs the pending frame f: its callback is draw of f's effect
AnimationFrame(f) ==
    /\ Tick
    /\ f \in pendingFrames
    /\ Show(draw(f.closure, f.effect, [Screen EXCEPT !.pending = @ \ {f}]))
    /\ drawn' = [by |-> f.effect, closure |-> f.closure]
    /\ UNCHANGED <<appVars, vizMounted, canvasOk, props, effectNo>>

\* the component is unmounted: the cleanup of the last effect
VisualizerUnmount ==
    /\ Tick
    /\ vizMounted
    /\ vizMounted' = FALSE
    /\ Show(cleanupEffect(Screen))
    /\ drawn' = NoDraw
    /\ UNCHANGED <<appVars, canvasOk, props, effectNo>>

NextVisualizer ==
    \/ \E p \in VisualizerProps : VisualizerMount(p)
    \/ \E p \in VisualizerProps : VisualizerRender(p)
    \/ \E f \in pendingFrames : AnimationFrame(f)
    \/ VisualizerUnmount

SpecVisualizer == InitVisualizer /\ [][NextVisualizer]_vars

\* ================================================================== claims
ActiveBuffer(role) == IF role = "user" THEN currentInputTextRef ELSE currentOutputTextRef
IsBlank(s) == \A i \in 1..Len(s) : s[i] = " "

\* messages of role that are final in after and were not final (or not there) in before
Finalised(before, after, role) ==
    { i \in 1..Len(after) :
        /\ after[i].role = role
        /\ ~after[i].isPartial
        /\ (i > Len(before) \/ before[i].isPartial) }

\* The step onmessage(c, m) leaves the accumulator onmessageBody(m, Transcript).
\* The claims about one handled message are stated of every state in which
\* onmessage is enabled and of every message it can then handle.
OnMessagePossible ==
    /\ stepsLeft > 0
    /\ nServerMessages < MaxServerMessages
    /\ \E c \in Connects : conn[c].sess = "open"

\* ---- C1
\* C1 as stated: whenever non-empty fragments f1..fn have been handled for a
\* role since its buffer was last reset, the list holds exactly one message of
\* that role for the turn (one more than when the turn began), the active one,
\* and its text is f1 + ... + fn.
C1_AsStated ==
    \A role \in Roles :
        turn[role].frags # <<>> =>
            /\ Cardinality(RoleMessages(messages, role)) = turn[role].base + 1
            /\ \E i \in RoleMessages(messages, role) :
                  /\ messages[i].id = activeMessageIds[role]
                  /\ messages[i].text = Concat(turn[role].frags)

\* C1 (amended): the buffer of a role always is f1 + ... + fn, the fragments
\* handled since the buffer was last reset (by a finalization or a completed
\* disconnect), in arrival order.  If that text has a non-blank character, the
\* list holds exactly one message of that role for the turn, the active one,
\* partial, with exactly that text; if it is empty or all blanks, the turn has
\* no message and no active id.
C1_FragmentsConcatenated ==
    \A role \in Roles :
        LET text == Concat(turn[role].frags)
            mine == RoleMessages(messages, role)
        IN  /\ ActiveBuffer(role) = text
            /\ IF IsBlank(text)
               THEN /\ activeMessageIds[role] = Null
                    /\ Cardinality(mine) = turn[role].base
               ELSE /\ Cardinality(mine) = turn[role].base + 1
                    /\ activeMessageIds[role] # Null
                    /\ Cardinality({ i \in 1..Len(messages) :
                                       messages[i].id = activeMessageIds[role] }) = 1
                    /\ \E i \in mine :
                          /\ messages[i].id = activeMessageIds[role]
                          /\ messages[i].text = text
                          /\ messages[i].isPartial

\* two different fragments of one turn are in the active message, in order
C1_Witness ==
    \E role \in Roles :
        /\ Len(turn[role].frags) >= 2
        /\ turn[role].frags[1] # turn[role].frags[2]
        /\ \E i \in 1..Len(messages) :
              /\ messages[i].id = activeMessageIds[role]
              /\ messages[i].text = turn[role].frags[1] \o turn[role].frags[2]

\* ---- C2
\* what the turnComplete branch must do for a role whose buffer is buf when the
\* branch is reached; B is the accumulator then, A the accumulator onmessage leaves
TurnCompleteFinalises(B, A, role) ==
    \E i \in 1..Len(A.messages) :
        /\ Finalised(B.messages, A.messages, role) = {i}
        /\ A.messages[i].text = Buffer(B, role)
TurnCompleteClears(A, role) ==
    /\ Buffer(A, role) = <<>>
    /\ A.ids[role] = Null

\* C2 as stated: when onmessage handles turnComplete while a role's buffer is
\* non-empty (blanks only included), exactly one message of that role, with
\* that text, becomes final, and the role's buffer and active id are cleared.
C2_AsStated ==
    OnMessagePossible =>
        \A m \in ServerMessages :
            m.turnComplete =>
                LET B == BeforeTurnComplete(m, Transcript)
                    A == onmessageBody(m, Transcript)
                IN  \A role \in Roles :
                       Buffer(B, role) # <<>> =>
                          /\ TurnCompleteFinalises(B, A, role)
                          /\ TurnCompleteClears(A, role)

\* C2 (amended): when onmessage handles turnComplete while a role's buffer is
\* non-empty, the buffer and the active id of the role are cleared; if the
\* buffer holds a non-blank character exactly one message of that role, with
\* that text, becomes final; if it holds blanks only, no message of that role
\* is added or made final.
C2_TurnCompleteFinalizes ==
    OnMessagePossible =>
        \A m \in ServerMessages :
            m.turnComplete =>
                LET B == BeforeTurnComplete(m, Transcript)
                    A == onmessageBody(m, Transcript)
                IN  \A role \in Roles :
                       Buffer(B, role) # <<>> =>
                          /\ TurnCompleteClears(A, role)
                          /\ IF IsBlank(Buffer(B, role))
                             THEN /\ Finalised(B.messages, A.messages, role) = {}
                                  /\ RoleMessages(A.messages, role) = RoleMessages(B.messages, role)
                             ELSE TurnCompleteFinalises(B, A, role)

\* a user turn was closed by turnComplete: its message is final, buffer and id cleared
C2_Witness ==
    /\ \E i \in 1..Len(messages) :
          messages[i].role = "user" /\ ~messages[i].isPartial /\ ~IsBlank(messages[i].text)
    /\ currentInputTextRef = <<>>
    /\ activeMessageIds["user"] = Null
    /\ nServerMessages > 0
    /\ outcome = "none" /\ disc = <<>>

\* ---- C4
\* C4: when onmessage reaches its interruption branch with an interrupted
\* signal while the model buffer is non-empty, exactly one model message
\* becomes final, the active one if there is one, and its text is the buffer
\* followed by " ..."; the model buffer and active id are cleared; the branch
\* leaves the user's buffer, active id and messages as they were.
C4_InterruptionMarks ==
    OnMessagePossible =>
        \A m \in ServerMessages :
            m.interrupted =>
                LET B == BeforeInterrupted(m, Transcript)
                    A == onmessageBody(m, Transcript)
                IN  B.outBuf # <<>> =>
                       /\ \E i \in 1..Len(A.messages) :
                             /\ Finalised(B.messages, A.messages, "model") = {i}
                             /\ A.messages[i].text = B.outBuf \o <<" ", ".", ".", ".">>
                             /\ B.ids["model"] # Null => A.messages[i].id = B.ids["model"]
                       /\ A.outBuf = <<>>
                       /\ A.ids["model"] = Null
                       /\ A.inBuf = B.inBuf
                       /\ A.ids["user"] = B.ids["user"]
                       /\ \A j \in RoleMessages(A.messages, "user") :
                             j <= Len(B.messages) /\ A.messages[j] = B.messages[j]

\* an interrupted model reply: final, its text a letter followed by the marker
C4_Witness ==
    \E i \in 1..Len(messages) :
        /\ messages[i].role = "model"
        /\ ~messages[i].isPartial
        /\ messages[i].text = <<"a", " ", ".", ".", ".">>
        /\ currentOutputTextRef = <<>>
        /\ activeMessageIds["model"] = Null

\* ---- C3
\* C3: whenever an invocation of disconnect has ended, normally or by an
\* exception, both text buffers are empty and both active ids are null.
C3_DisconnectAlwaysClears ==
    outcome # "none" =>
        /\ currentInputTextRef = <<>>
        /\ currentOutputTextRef = <<>>
        /\ activeMessageIds = NoActiveIds

\* ---- C5
\* connect c has failed: its catch block ran, or its live.connect promise rejected
ConnectFailed(c) == conn[c].pc = "failed" \/ conn[c].sess = "rejected"

\* C5: once a connect attempt has failed and no disconnect is still in
\* progress, the audio context of the attempt is closed, its MediaStream is
\* stopped and it has no session that is open or opening.
C5_FailedConnectReleases ==
    \A c \in Connects :
        (ConnectFailed(c) /\ disc = <<>>) =>
            /\ conn[c].ctx \in {"none", "closed"}
            /\ conn[c].stream # "live"
            /\ conn[c].sess \notin {"connecting", "open"}

\* ---- C6
\* the step is an error of one of the three kinds, of connect c
MicrophoneFailure(c) == conn[c].pc = "awaitMedia" /\ conn'[c].pc = "failed"
RemoteConnectionFailure(c) ==
    conn[c].sess = "connecting" /\ conn'[c].sess \in {"rejected", "errorConnecting"}
MidSessionError(c) == conn[c].sess = "open" /\ conn'[c].sess = "errorOpen"
DisconnectInvoked == Len(disc') > Len(disc) \/ outcome' # "none"

\* C6: every step in which the microphone request fails, the remote
\* connection fails or an open session reports an error leaves the error
\* string non-null, invokes disconnect and leaves the connected flag false.
C6_ErrorsSurfaced ==
    [][\A c \in Connects :
          (MicrophoneFailure(c) \/ RemoteConnectionFailure(c) \/ MidSessionError(c)) =>
              /\ error' # NoError
              /\ DisconnectInvoked
              /\ ~isConnected']_vars

\* ---- C7
\* C7: when a disconnect has completed and only one connect was ever started,
\* the MediaStream of that connect is stopped, its source and processor nodes
\* are detached, its audio context is closed and no audio frame of it can
\* reach a session.
C7_DisconnectReleasesAudio ==
    (outcome = "done" /\ Started = {1}) =>
        /\ conn[1].stream # "live"
        /\ conn[1].graph # "connected"
        /\ conn[1].ctx \in {"none", "closed"}
        /\ frameTo = Null

\* ---- C8
\* C8: once the application has started without an API key, the error string
\* is the missing-key message, the connected flag is false, and no audio
\* context, MediaStream or session has been created.
C8_MissingKeyBlocks ==
    (mounted /\ ~apiKey) =>
        /\ error = ApiKeyMissing
        /\ ~isConnected
        /\ \A c \in Connects : conn[c] = IdleConn
        /\ sessionRef = Null
        /\ inputContextRef = Null

\* started without a key: the error is shown and the connect button is disabled
C8_Witness ==
    /\ mounted
    /\ ~apiKey
    /\ ~aiRef
    /\ ButtonDisabled(error)

\* ---- C9
ExportLabel(msg) == IF msg.role = "user" THEN UserPrefix ELSE AIPrefix

\* index in the file of the first character of block i
RECURSIVE BlockStart(_, _)
BlockStart(msgs, i) ==
    IF i = 1 THEN 1
    ELSE BlockStart(msgs, i - 1) + Len(ExportLabel(msgs[i - 1])) + Len(msgs[i - 1].text) + 2

\* content is one block per message, in list order, a blank line between blocks
IsExportOf(content, msgs) ==
    LET N == Len(msgs)
        textStart(i) == BlockStart(msgs, i) + Len(ExportLabel(msgs[i]))
        blockEnd(i) == textStart(i) + Len(msgs[i].text) - 1
    IN  /\ Len(content) = blockEnd(N)
        /\ \A i \in 1..N :
              /\ SubSeq(content, BlockStart(msgs, i), textStart(i) - 1) = ExportLabel(msgs[i])
              /\ SubSeq(content, textStart(i), blockEnd(i)) = msgs[i].text
              /\ i < N => SubSeq(content, blockEnd(i) + 1, blockEnd(i) + 2) = <<"\n", "\n">>

\* C9: downloadTranscript with an empty message list saves nothing; with N
\* messages it saves exactly N blocks, in list order, each "[User]: " or
\* "[AI]: " followed by the message text, separated by blank lines; it leaves
\* the message list unchanged.
C9_ExportBlocks ==
    [][downloadTranscript =>
          /\ messages' = messages
          /\ IF Len(messages) = 0
             THEN download' = download /\ download' = <<>>
             ELSE IsExportOf(download', messages)]_vars

\* a transcript with both speakers has been saved
C9_Witness ==
    /\ Len(messages) >= 2
    /\ messages[1].role # messages[2].role
    /\ download # <<>>
    /\ Len(download) > Len(UserPrefix) + Len(AIPrefix) + 2

\* ---- C10
\* the step is the onopen callback of session c
OnopenStep(c) == conn[c].sess = "connecting" /\ conn'[c].sess \in {"open", "closing"}

\* C10: the connected flag becomes true only in the onopen of a session, and
\* only of a session whose connect was not started before the latest user
\* disconnect, remote error or remote close; each of those steps leaves the
\* flag false.
C10_Lifecycle ==
    [][/\ (isConnected' /\ ~isConnected) => \E c \in Connects : OnopenStep(c)
       /\ \A c \in Connects : OnopenStep(c) => c \notin superseded
       /\ superseded' # superseded => ~isConnected']_vars

\* ---- C11
\* C11: every step in which the microphone request fails, the remote
\* connection fails or an open session reports an error leaves the connect
\* action enabled once the flag is false: only the missing-key error disables
\* the "Start Listening" button.
C11_ReconnectStaysEnabled ==
    [][\A c \in Connects :
          (MicrophoneFailure(c) \/ RemoteConnectionFailure(c) \/ MidSessionError(c)) =>
              ~ButtonDisabled(error')]_vars

\* ---- C12
\* the messages of role are the same, at the same places, in before and after
SameRoleMessages(before, after, role) ==
    /\ RoleMessages(after, role) = RoleMessages(before, role)
    /\ \A i \in RoleMessages(before, role) : after[i] = before[i]

EmptyOrAbsent(f) == ~f.has \/ f.text = <<>>

\* C12: when onmessage handles an event whose transcription for a role is
\* absent or empty, the fragment branches leave that role's buffer, active id
\* and messages as they were (the whole accumulator if that is so for both
\* roles); and a turnComplete or interrupted signal reaching its branch while a
\* role's buffer is empty adds and modifies no message of that role.
C12_EmptyFragmentIgnored ==
    OnMessagePossible =>
        \A m \in ServerMessages :
            LET B == BeforeTurnComplete(m, Transcript)
                A == onmessageBody(m, Transcript)
            IN  /\ \A role \in Roles :
                      /\ EmptyOrAbsent(FragmentOf(m, role)) =>
                            /\ Buffer(B, role) = ActiveBuffer(role)
                            /\ B.ids[role] = activeMessageIds[role]
                            /\ SameRoleMessages(messages, B.messages, role)
                      /\ ((m.turnComplete \/ m.interrupted) /\ Buffer(B, role) = <<>>) =>
                            SameRoleMessages(B.messages, A.messages, role)
                /\ (\A role \in Roles : EmptyOrAbsent(FragmentOf(m, role))) => B = Transcript

\* events were handled and left no trace: they carried no text, and whatever
\* signal they carried found empty buffers
C12_Witness ==
    /\ nServerMessages = MaxServerMessages
    /\ messages = <<>>
    /\ currentInputTextRef = <<>>
    /\ currentOutputTextRef = <<>>
    /\ turn["user"].frags = <<>> /\ turn["model"].frags = <<>>

\* ---- C13
IsPrefix(a, b) == Len(a) <= Len(b) /\ SubSeq(b, 1, Len(a)) = a

\* C13: in every step the message list keeps its length or grows at its end;
\* every message it held stays at its place with the same id and role, and its
\* earlier text is a prefix of its later text.
C13_MessagesOnlyGrow ==
    [][/\ Len(messages') >= Len(messages)
       /\ \A i \in 1..Len(messages) :
             /\ messages'[i].id = messages[i].id
             /\ messages'[i].role = messages[i].role
             /\ IsPrefix(messages[i].text, messages'[i].text)]_vars

\* two messages, one of them extended by a second fragment
C13_Witness ==
    /\ Len(messages) = 2
    /\ \E i \in 1..2 : messages[i].isPartial /\ Len(messages[i].text) = 2

\* ---- C14
\* C14: in every state of a run with one connect at a time, a partial message
\* carries the active id of its role (so each role has at most one partial
\* message), and a non-null active id of a role is the id of a partial message
\* of that role whose text is the role's buffer.
C14_PartialIffActive ==
    Started \subseteq {1} =>
    /\ \A i \in 1..Len(messages) :
          messages[i].isPartial => messages[i].id = activeMessageIds[messages[i].role]
    /\ \A role \in Roles :
          /\ Cardinality({ i \in RoleMessages(messages, role) : messages[i].isPartial }) <= 1
          /\ activeMessageIds[role] # Null =>
                \E i \in RoleMessages(messages, role) :
                    /\ messages[i].id = activeMessageIds[role]
                    /\ messages[i].isPartial
                    /\ messages[i].text = ActiveBuffer(role)

\* ---- C15
\* no connect() is between its start and the opening of its session, and no
\* disconnect() is suspended
NoCallInProgress ==
    /\ disc = <<>>
    /\ \A c \in Connects :
          /\ conn[c].pc \notin {"awaitResume", "awaitMedia"}
          /\ conn[c].sess # "connecting"

\* an audio frame of session c's graph can be sent to session c
FramesForwarded(c) ==
    /\ conn[c].graph = "connected"
    /\ conn[conn[c].nodeCtx].ctx = "running"
    /\ conn[c].sess = "open"

\* C15: whenever the connected flag is false and no connect or disconnect call
\* is in progress, no session is open, no audio frame can be forwarded, both
\* text buffers are empty and both active ids are null.
C15_DisconnectedIsClean ==
    (mounted /\ ~isConnected /\ NoCallInProgress) =>
        /\ \A c \in Connects : conn[c].sess # "open" /\ ~FramesForwarded(c)
        /\ currentInputTextRef = <<>>
        /\ currentOutputTextRef = <<>>
        /\ activeMessageIds = NoActiveIds

\* ---- C16
\* the audio contexts that are open, and the sessions that are open or opening
OpenContexts == { c \in Connects : conn[c].ctx \in {"suspended", "running"} }
LiveSessions == { c \in Connects : conn[c].sess \in {"connecting", "open"} }

\* C16: at any time at most one audio context is open and at most one session
\* is open or opening.
C16_OneSessionOneContext ==
    /\ Cardinality(OpenContexts) <= 1
    /\ Cardinality(LiveSessions) <= 1

\* ---- C17
\* C17: while no connect() has failed (so that every disconnect() so far was
\* started by an End Session click or by onerror), a session whose connect()
\* was started after the latest of those has not been closed by session.close()
\* and its audio graph has not been detached.
C17_DisconnectSparesNewSession ==
    (\A c \in Connects : conn[c].pc # "failed") =>
        \A c \in Started \ superseded :
            /\ conn[c].sess # "closing"
            /\ conn[c].graph # "detached"

\* ---- C18
\* C18: in every step, each message that is final stays in the list at its
\* place, unchanged: same id, role and text, and still final.
C18_FinalIsImmutable ==
    [][\A i \in 1..Len(messages) :
          ~messages[i].isPartial =>
              /\ i <= Len(messages')
              /\ messages'[i] = messages[i]]_vars

\* a final message of a role, and a later message of the same role, with another id
C18_Witness ==
    \E i, j \in 1..Len(messages) :
        /\ i < j
        /\ messages[i].role = messages[j].role
        /\ ~messages[i].isPartial
        /\ messages[i].id # messages[j].id

\* ---- C19
\* the draw of the latest step ran with isActive true and an analyser
DrawnActive == drawn.closure.isActive /\ drawn.closure.analyser # Null

\* C19: at most one animation frame is pending, and it belongs to the current
\* effect of the mounted component; a draw with isActive true and an analyser
\* paints the bars and requests exactly one frame, the only one then pending; a
\* draw without paints the flat baseline and leaves no frame pending; and only
\* the current effect of the mounted component ever draws.
C19_OnePendingFrame ==
    /\ Cardinality(pendingFrames) <= 1
    /\ \A f \in pendingFrames :
          vizMounted /\ f.effect = effectNo /\ f.id = animationRef
    /\ drawn # NoDraw =>
          /\ vizMounted
          /\ drawn.by = effectNo
          /\ IF DrawnActive
             THEN /\ canvas = "bars"
                  /\ \E f \in pendingFrames : pendingFrames = {f} /\ f.closure = drawn.closure
             ELSE /\ canvas = "baseline"
                  /\ pendingFrames = {}

\* frames were requested and the latest was cancelled: nothing is pending
\* while the component is still mounted, in its third effect
C19_Witness ==
    /\ vizMounted
    /\ effectNo = 3
    /\ animationRef >= 2
    /\ pendingFrames = {}
    /\ canvas = "baseline"

====
